---- MODULE Spec2Model ----
(***************************************************************************)
(* WalletApi: the sharded transaction service (internal/service) and the   *)
(* PostgreSQL repository (internal/repository) it drives.                  *)
(*                                                                         *)
(* One or more walletService values ("services"), each with its own lane   *)
(* queues and worker goroutines, share one wallets table.  Callers run     *)
(* walletService.ProcessTransaction; every worker goroutine runs           *)
(* walletService.processTransactions and, inside it, the statements of     *)
(* PostgresRepository.ProcessTransaction one store round trip at a time.   *)
(*                                                                         *)
(* Amounts and balances are Go int64.  The model counts them in units of   *)
(* 2^(64-IntBits): a model value v stands for the int64 v * 2^(64-IntBits),*)
(* and addition, subtraction, comparison and two's-complement wrap-around  *)
(* on those multiples are exactly the int64 ones.                          *)
(***************************************************************************)
EXTENDS Integers, Sequences, FiniteSets, TLC

\* ------------------------------------------------------------------ bounds
MaxFaults == 1        \* store round trips that fail in one behaviour
IntBits == 3          \* the top IntBits bits of an int64 are modelled
QueueCap == 2         \* buffer of one lane channel (10000 in the source)
workers == 2          \* lane count handed to NewWalletService
MaxIdLen == 3         \* length of the byte strings handed to getShard alone
mainWorkers == 16     \* lane count of cmd/main.go

\* ------------------------------------------------------------------ int64
RECURSIVE Pow2(_)
Pow2(n) == IF n = 0 THEN 1 ELSE 2 * Pow2(n - 1)

MaxInt64 == Pow2(IntBits - 1) - 1
MinInt64 == 0 - Pow2(IntBits - 1)
Int64 == MinInt64 .. MaxInt64

\* Go's int64 arithmetic wraps around silently (two's complement).
Wrap64(x) == ((x - MinInt64) % Pow2(IntBits)) + MinInt64

\* ------------------------------------------------------------------ model
Deposit == "DEPOSIT"
Withdraw == "WITHDRAW"
OperationTypes == {Deposit, Withdraw, "INVALID_OPERATION"}

ErrWalletNotFound == "wallet not found"
ErrInsufficientFunds == "insufficient funds"
ErrInvalidAmount == "invalid amount"
ErrInvalidOperation == "invalid operation type"
\* Every fmt.Errorf("...: %w", err) of the repository: a wrapped store error.
StoreFailure == "store failure"
Completed == "nil"
Errors == {ErrWalletNotFound, ErrInsufficientFunds, ErrInvalidAmount,
           ErrInvalidOperation, StoreFailure}
Outcomes == Errors \cup {Completed}

\* Wallet identifiers are strings; a string is its sequence of bytes.
\* "00000000-0000-4000-8000-000000000001" and
\* "00000000-0000-4000-8000-000000000002".
WalletA ==
    <<48, 48, 48, 48, 48, 48, 48, 48, 45, 48, 48, 48, 48, 45, 52, 48, 48, 48,
      45, 56, 48, 48, 48, 45, 48, 48, 48, 48, 48, 48, 48, 48, 48, 48, 48, 49>>
WalletB ==
    <<48, 48, 48, 48, 48, 48, 48, 48, 45, 48, 48, 48, 48, 45, 52, 48, 48, 48,
      45, 56, 48, 48, 48, 45, 48, 48, 48, 48, 48, 48, 48, 48, 48, 48, 48, 50>>
WalletIDs == {WalletA, WalletB}

\* Amounts a caller may put in model.Transaction.Amount.
Amounts == {-1, 0, 1, MaxInt64 \div 2 + 1}

Transaction == [WalletID : WalletIDs, OperationType : OperationTypes,
                Amount : Amounts]

\* ------------------------------------------------------------------ FNV-1a
\* hash/fnv New32a: 32-bit words are kept as <<high 16 bits, low 16 bits>>.
RECURSIVE Xor(_, _)
Xor(a, b) ==
    IF a = 0 THEN b
    ELSE IF b = 0 THEN a
    ELSE 2 * Xor(a \div 2, b \div 2) + ((a + b) % 2)

offset32 == <<33052, 40389>>          \* 2166136261 = 0x811C9DC5
\* One Write step: hash ^= c; hash *= 16777619 (0x01000193), modulo 2^32.
fnvStep(h, c) ==
    LET lo == Xor(h[2], c)
        hi == h[1]
        t  == lo * 403
    IN  << (hi * 403 + (t \div 65536) + (lo % 256) * 256) % 65536, t % 65536 >>

RECURSIVE fnv32a(_, _)
fnv32a(h, bytes) ==
    IF bytes = <<>> THEN h
    ELSE LET next == fnvStep(h, Head(bytes))
         IN  \* the test has TLC compute next before it goes on
             IF next[1] >= 0 THEN fnv32a(next, Tail(bytes)) ELSE next

Sum32(bytes) == fnv32a(offset32, bytes)

\* Go's int is 32 or 64 bits wide, as the platform of the build has it.
IntSizes == {32, 64}

\* int(h) % n for the uint32 h and an int of the given width, n > 0.  A
\* 64-bit int keeps the value of h; a 32-bit int keeps its bits, so that
\* h >= 2^31 becomes h - 2^32, and Go's % takes the sign of the dividend.
IntRem(h, n, bits) ==
    IF bits = 32 /\ h[1] >= 32768
    THEN LET a == (h[1] - 65536) * 65536 + h[2]
             m == a % n
         IN  IF m = 0 THEN 0 ELSE m - n
    ELSE ((h[1] % n) * (65536 % n) + (h[2] % n)) % n

\* Line 57 for a service of n lanes.
getShardOf(walletID, n, bits) == IntRem(Sum32(walletID), n, bits)

\* getShard of the services of the model, which run on a 64-bit platform.
getShard(walletID) == getShardOf(walletID, workers, 64)

\* ------------------------------------------------------------------ state
Services == {1, 2}                    \* walletService values that may exist
ShardIndexes == 0 .. (workers - 1)
Lanes == Services \X ShardIndexes     \* s.queues[i] of service s
Goroutines == Services \X ShardIndexes \* go s.processTransactions(i)
\* The ProcessTransaction calls of one behaviour, each made by its own
\* caller goroutine, numbered in the order they are made.
ReqIds == {1, 2}
\* The Shutdown calls of one behaviour: a first one and a repeated one.
ShutdownIds == {1, 2}

\* The HTTP requests of one behaviour, numbered in the order they are served.
HttpIds == {1, 2}

\* A JSON member of the request body: a string, a number, or not there.
JString(x) == [type |-> "string", str |-> x, num |-> 0]
JNumber(n) == [type |-> "number", str |-> "", num |-> n]
JAbsent == [type |-> "absent", str |-> "", num |-> 0]
\* A request body: whether it is JSON at all, and the members the decoder
\* looks for (the tags of model.Transaction).
NoBody == [syntax |-> "none", walletId |-> <<>>, operationType |-> JAbsent,
           amount |-> JAbsent]
NoHttp == [pc |-> "new", path |-> <<>>, body |-> NoBody, call |-> 0, status |-> 0]

NoLock == <<>>
NoReq == [svc |-> 0, t |-> [WalletID |-> <<>>, OperationType |-> "", Amount |-> 0]]
NoTx == [balance |-> 0, newBalance |-> 0]
None == "-"
NoRoute == [pc |-> "new", id |-> <<>>, workers |-> 0, bits |-> 0, shard |-> 0]
NoShutdown == [svc |-> 0, i |-> 0, pc |-> "new", backlog |-> 0, caught |-> {}]

VARIABLES
    services,    \* the walletService values NewWalletService has built
    menu,        \* the transactions the callers of this behaviour submit
    capacity,    \* cap(s.queues[i]): the buffer size of every lane channel
    route,       \* [pc, id, workers, bits, shard]: a getShard call made on
                 \* its own, and the queue lookup with its result
    wallets,     \* table wallets: id of every row -> committed balance
    rowLock,     \* id -> the goroutine whose transaction holds FOR UPDATE
    queues,      \* lane -> buffered requests of the channel
    closed,      \* lane -> TRUE once close() was called on the channel
    sd,          \* Shutdown call -> [svc, i, pc]: its loop index and position,
                 \* and (history) how many requests the lanes and workers
                 \* held when it was made, and the calls that were on their
                 \* send (line 68) when it closed their lane
    nextReq,     \* number of ProcessTransaction calls made so far
    reqs,        \* call -> [svc, t] once made
    cpc,         \* call -> where its caller is in ProcessTransaction
    resultChan,  \* call -> contents of its result channel (capacity 1)
    ret,         \* call -> what ProcessTransaction returned
    cancelled,   \* call -> TRUE once the caller's ctx was cancelled
    http,        \* HTTP request -> [pc, path, body, call, status] of the
                 \* HandleTransaction call that serves it
    wpc,         \* goroutine -> where it is in processTransactions
    wreq,        \* goroutine -> the request req of the current iteration
    werr,        \* goroutine -> its variable err
    tx,          \* goroutine -> [balance, newBalance] of its open transaction
    faults,      \* store round trips that have failed so far
    \* history, read by the properties only
    arrival,     \* lane -> requests in the order they were enqueued
    started,     \* lane -> requests in the order a worker took them
    delivered,   \* call -> number of sends on its result channel
    execResult,  \* call -> what the worker computed for it
    applied,     \* call -> number of commits its executor call made
    touched,     \* call -> TRUE once the repository was called for it
    born         \* id -> TRUE if its row was inserted before any call was made

vars == <<services, menu, capacity, route, wallets, rowLock, queues, closed, sd, nextReq, reqs, cpc, resultChan,
          ret, cancelled, http, wpc, wreq, werr, tx, faults, arrival, started, delivered,
          execResult, applied, touched, born>>

storeVars == <<wallets, rowLock, tx, faults, applied>>
callerVars == <<nextReq, reqs, cpc, ret>>
envVars == <<services, menu, capacity, route>>
ctxVars == <<cancelled>>
httpVars == <<http>>
lifeVars == <<envVars, ctxVars, httpVars, closed, sd>>
workerVars == <<wpc, wreq, werr>>
histVars == <<arrival, started, delivered, execResult, touched, born>>
otherHist == <<arrival, started, delivered, touched, born>>

\* ------------------------------------------------------------------ Init
\* Every goroutine started on the first lane.
SpawnIndexZero(i) == 0

\* NewWalletService: go s.processTransactions(i) for i in 0 .. workers-1.
SpawnIndex(i) == i
shardIndex(g) == SpawnIndex(g[2])
laneOf(g) == <<g[1], shardIndex(g)>>

\* The state NewWalletService leaves for every service it built: empty
\* queues, every worker goroutine at the head of its range loop.
NewWalletService(built) ==
    /\ services = built
    /\ queues = [l \in Lanes |-> <<>>]
    /\ closed = [l \in Lanes |-> FALSE]
    /\ sd = [k \in ShutdownIds |-> NoShutdown]
    /\ wpc = [g \in Goroutines |-> IF g[1] \in built THEN "range" ELSE "none"]
    /\ wreq = [g \in Goroutines |-> 0]
    /\ werr = [g \in Goroutines |-> None]

InitStore ==
    /\ wallets = <<>>
    /\ rowLock = [w \in WalletIDs |-> NoLock]
    /\ tx = [g \in Goroutines |-> NoTx]
    /\ faults = 0

InitCallers ==
    /\ nextReq = 0
    /\ reqs = [r \in ReqIds |-> NoReq]
    /\ cpc = [r \in ReqIds |-> "new"]
    /\ resultChan = [r \in ReqIds |-> <<>>]
    /\ ret = [r \in ReqIds |-> None]
    /\ cancelled = [r \in ReqIds |-> FALSE]
    /\ http = [h \in HttpIds |-> NoHttp]
    /\ route = NoRoute

InitHistory ==
    /\ arrival = [l \in Lanes |-> <<>>]
    /\ started = [l \in Lanes |-> <<>>]
    /\ delivered = [r \in ReqIds |-> 0]
    /\ execResult = [r \in ReqIds |-> None]
    /\ applied = [r \in ReqIds |-> 0]
    /\ touched = [r \in ReqIds |-> FALSE]
    /\ born = [w \in WalletIDs |-> FALSE]

Init ==
    /\ NewWalletService(Services)
    /\ menu = Transaction
    /\ capacity = QueueCap
    /\ InitStore /\ InitCallers /\ InitHistory

\* ------------------------------------------------------------------ store
HasRow(w) == w \in DOMAIN wallets

\* PostgresRepository.CreateWallet: INSERT ... VALUES (0) RETURNING id.
CreateWallet(w) ==
    /\ ~HasRow(w)
    /\ wallets' = [v \in DOMAIN wallets \cup {w} |->
                       IF v = w THEN 0 ELSE wallets[v]]
    /\ born' = [born EXCEPT ![w] = (nextReq = 0)]
    /\ UNCHANGED <<lifeVars, rowLock, tx, faults, applied, queues, callerVars,
                   resultChan, workerVars, arrival, started, delivered,
                   execResult, touched>>

\* ------------------------------------------------------------------ submit
\* Line 61: if t.Amount <= 0.
InvalidAmountStrict(amount) == amount < 0
InvalidAmount(amount) == amount <= 0

\* walletService.ProcessTransaction, lines 60-66: the amount check, the
\* shard and the result channel.
Enter(r, s, t) ==
    /\ nextReq = r - 1
    /\ cpc[r] = "new"
    /\ s \in services
    /\ t \in menu
    /\ nextReq' = r
    /\ reqs' = [reqs EXCEPT ![r] = [svc |-> s, t |-> t]]
    /\ IF InvalidAmount(t.Amount)
       THEN /\ cpc' = [cpc EXCEPT ![r] = "ret"]
            /\ ret' = [ret EXCEPT ![r] = ErrInvalidAmount]
       ELSE /\ cpc' = [cpc EXCEPT ![r] = "send"]
            /\ ret' = ret
    /\ UNCHANGED <<envVars, ctxVars, closed, sd, storeVars, queues,
                   resultChan, workerVars, histVars>>

\* ProcessTransaction called directly, as the tests of the service do.
Submit(r, s, t) == Enter(r, s, t) /\ UNCHANGED httpVars

\* A router that deals the calls out in turn, whatever their wallet.
reqLaneByTurn(r) == <<reqs[r].svc, r % workers>>

\* getShard is a pure function of the identifier and the lane count: its
\* values for the wallets of the model.
shardOf == [w \in WalletIDs |-> getShard(w)]

\* Line 65 and line 68: the lane is s.queues[s.getShard(t.WalletID)].
reqLane(r) == <<reqs[r].svc, shardOf[reqs[r].t.WalletID]>>

\* A channel that takes a send whatever it already holds.
HasRoomAlways(q) == TRUE

\* A send on a buffered channel goes through while the buffer is not full.
HasRoom(q) == Len(q) < capacity

\* A channel that puts a new element in front of the buffered ones.
EnqueueFront(q, r) == <<r>> \o q

\* A send on a buffered channel puts the element behind the buffered ones.
Enqueue(q, r) == Append(q, r)

\* Line 68: s.queues[shard] <- transactionRequest{...}; blocks while the
\* buffer is full.
Send(r) ==
    /\ cpc[r] = "send"
    /\ IF closed[reqLane(r)]
       THEN \* send on closed channel: the caller's goroutine panics
            /\ cpc' = [cpc EXCEPT ![r] = "panic"]
            /\ UNCHANGED <<queues, arrival>>
       ELSE /\ HasRoom(queues[reqLane(r)])
            /\ queues' = [queues EXCEPT ![reqLane(r)] = Enqueue(@, r)]
            /\ arrival' = [arrival EXCEPT ![reqLane(r)] = Append(@, r)]
            /\ cpc' = [cpc EXCEPT ![r] = "recv"]
    /\ UNCHANGED <<lifeVars, storeVars, nextReq, reqs, ret, resultChan,
                   workerVars, started, delivered, execResult, touched, born>>

\* Line 74: return <-resultChan.
Recv(r) ==
    /\ cpc[r] = "recv"
    /\ resultChan[r] # <<>>
    /\ ret' = [ret EXCEPT ![r] = Head(resultChan[r])]
    /\ resultChan' = [resultChan EXCEPT ![r] = Tail(@)]
    /\ cpc' = [cpc EXCEPT ![r] = "ret"]
    /\ UNCHANGED <<lifeVars, storeVars, queues, nextReq, reqs, workerVars,
                   histVars>>

\* ------------------------------------------------------------------ worker
\* A receive that takes the newest element instead.
ReceiveNewest(q) == <<q[Len(q)], SubSeq(q, 1, Len(q) - 1)>>

\* A receive from a Go channel takes its oldest element:
\* <<the element, what stays buffered>>.
Receive(q) == <<Head(q), Tail(q)>>

\* The worker is inside repo.ProcessTransaction at these positions.
ExecPcs == {"begin", "exists", "lock", "update", "commit"}

\* Lines 85-92: the cases of the switch that call the repository.
RepoCaseAny(op) == TRUE
RepoCase(op) == op \in {Deposit, Withdraw}

\* processTransactions, lines 83-92: take the next request and switch on its
\* operation type; PostgresRepository.ProcessTransaction starts with its own
\* amount check (lines 39-41).
Range(g) ==
    /\ wpc[g] = "range"
    /\ queues[laneOf(g)] # <<>>
    /\ LET r == Receive(queues[laneOf(g)])[1]
           t == reqs[r].t
           repo == RepoCase(t.OperationType)
       IN  /\ queues' = [queues EXCEPT ![laneOf(g)] = Receive(@)[2]]
           /\ started' = [started EXCEPT ![laneOf(g)] = Append(@, r)]
           /\ wreq' = [wreq EXCEPT ![g] = r]
           /\ touched' = [touched EXCEPT ![r] = repo]
           /\ IF ~repo
              THEN /\ werr' = [werr EXCEPT ![g] = ErrInvalidOperation]
                   /\ wpc' = [wpc EXCEPT ![g] = "deliver"]
                   /\ execResult' = execResult
              ELSE IF t.Amount <= 0
              THEN /\ werr' = [werr EXCEPT ![g] = ErrInvalidAmount]
                   /\ wpc' = [wpc EXCEPT ![g] = "deliver"]
                   /\ execResult' = [execResult EXCEPT ![r] = ErrInvalidAmount]
              ELSE /\ werr' = [werr EXCEPT ![g] = None]
                   /\ wpc' = [wpc EXCEPT ![g] = "begin"]
                   /\ execResult' = execResult
    /\ UNCHANGED <<lifeVars, storeVars, callerVars, resultChan, arrival,
                   delivered, born>>

\* A range loop that ends at the close, whatever the buffer still holds.
DrainedAlways(q) == TRUE

\* A closed channel still hands out what it buffered; range ends after that.
Drained(q) == q = <<>>

\* Lines 82-83: the range loop ends once the channel is closed and drained;
\* the deferred s.wg.Done() runs.
RangeEnd(g) ==
    /\ wpc[g] = "range"
    /\ Drained(queues[laneOf(g)])
    /\ closed[laneOf(g)]
    /\ wpc' = [wpc EXCEPT ![g] = "done"]
    /\ UNCHANGED <<lifeVars, storeVars, queues, callerVars, resultChan, wreq,
                   werr, histVars>>

\* A return without the deferred rollback: the transaction stays open and
\* keeps its row lock.
AbortKeepLock(g, e) ==
    /\ werr' = [werr EXCEPT ![g] = e]
    /\ execResult' = [execResult EXCEPT ![wreq[g]] = e]
    /\ wpc' = [wpc EXCEPT ![g] = "deliver"]
    /\ tx' = [tx EXCEPT ![g] = NoTx]
    /\ rowLock' = rowLock

\* repo.ProcessTransaction returns e to the worker (nil after a commit); the
\* deferred tx.Rollback() ends the transaction and drops its row lock.
Abort(g, e) ==
    /\ werr' = [werr EXCEPT ![g] = e]
    /\ execResult' = [execResult EXCEPT ![wreq[g]] = e]
    /\ wpc' = [wpc EXCEPT ![g] = "deliver"]
    /\ tx' = [tx EXCEPT ![g] = NoTx]
    /\ rowLock' = [w \in WalletIDs |-> IF rowLock[w] = g THEN NoLock
                                                         ELSE rowLock[w]]

\* A store round trip of goroutine g fails: the repository wraps the error
\* and returns it.
Fault(g) ==
    /\ faults < MaxFaults
    /\ faults' = faults + 1
    /\ Abort(g, StoreFailure)
    /\ UNCHANGED <<wallets, applied, wreq>>

\* The request's ctx goes to every store call (BeginTx, QueryRowContext,
\* ExecContext; Commit checks the ctx the transaction was begun with): once
\* it is cancelled the call returns the context's error and the repository
\* wraps and returns it.
CtxDone(g) == cancelled[wreq[g]]

CtxError(g) ==
    /\ CtxDone(g)
    /\ Abort(g, StoreFailure)
    /\ UNCHANGED <<wallets, faults, applied, wreq>>

\* Lines 43-47: r.db.BeginTx.
BeginTx(g) ==
    /\ wpc[g] = "begin"
    /\ \/ /\ ~CtxDone(g)
          /\ wpc' = [wpc EXCEPT ![g] = "exists"]
          /\ UNCHANGED <<wallets, rowLock, tx, faults, applied, wreq, werr,
                         execResult>>
       \/ CtxError(g)
       \/ Fault(g)
    /\ UNCHANGED <<lifeVars, queues, callerVars, resultChan, otherHist>>

\* Lines 49-61: SELECT EXISTS(SELECT 1 FROM wallets WHERE id = $1).
Exists(g) ==
    /\ wpc[g] = "exists"
    /\ LET w == reqs[wreq[g]].t.WalletID
       IN  \/ /\ ~CtxDone(g)
              /\ HasRow(w)
              /\ wpc' = [wpc EXCEPT ![g] = "lock"]
              /\ UNCHANGED <<wallets, rowLock, tx, faults, applied, wreq, werr,
                             execResult>>
           \/ /\ ~CtxDone(g)
              /\ ~HasRow(w)
              /\ Abort(g, ErrWalletNotFound)
              /\ UNCHANGED <<wallets, faults, applied, wreq>>
           \/ CtxError(g)
           \/ Fault(g)
    /\ UNCHANGED <<lifeVars, queues, callerVars, resultChan, otherHist>>

\* FOR UPDATE waits until no other transaction holds the row.
CanLock(g, w) == rowLock[w] = NoLock

\* Lines 63-72: SELECT balance FROM wallets WHERE id = $1 FOR UPDATE.
SelectForUpdate(g) ==
    /\ wpc[g] = "lock"
    /\ LET w == reqs[wreq[g]].t.WalletID
       IN  \/ /\ ~CtxDone(g)
              /\ CanLock(g, w)
              /\ rowLock' = [rowLock EXCEPT ![w] = g]
              /\ tx' = [tx EXCEPT ![g].balance = wallets[w]]
              /\ wpc' = [wpc EXCEPT ![g] = "update"]
              /\ UNCHANGED <<wallets, faults, applied, wreq, werr, execResult>>
           \/ CtxError(g)
           \/ Fault(g)
    /\ UNCHANGED <<lifeVars, queues, callerVars, resultChan, otherHist>>

\* A funds check that also refuses to empty the wallet.
InsufficientOrEqual(isDeposit, balance, amount) == ~isDeposit /\ balance <= amount

\* Line 75: if !isDeposit && balance < amount.
Insufficient(isDeposit, balance, amount) == ~isDeposit /\ balance < amount

\* Lines 80-85: newBalance in int64 arithmetic.
NewBalance(isDeposit, balance, amount) ==
    IF isDeposit THEN Wrap64(balance + amount) ELSE Wrap64(balance - amount)

\* Table wallets, whose schema (migrations/001_init.sql) is not part of the
\* sources: columns {id, balance}, balance a signed 64-bit integer that the
\* table itself does not constrain further.
ColumnAccepts(v) == v \in Int64

\* Update with the funds check made after the write was committed.
UpdateCheckLate(g) ==
    /\ wpc[g] = "update"
    /\ LET r == wreq[g]
           t == reqs[r].t
           isDeposit == t.OperationType = Deposit
           nb == NewBalance(isDeposit, tx[g].balance, t.Amount)
       IN  /\ wallets' = [wallets EXCEPT ![t.WalletID] = nb]
           /\ applied' = [applied EXCEPT ![r] = @ + 1]
           /\ Abort(g, IF Insufficient(isDeposit, tx[g].balance, t.Amount)
                        THEN ErrInsufficientFunds ELSE Completed)
           /\ UNCHANGED <<faults, wreq>>
    /\ UNCHANGED <<lifeVars, queues, callerVars, resultChan, otherHist>>

\* Lines 74-95: the funds check, the new balance and
\* UPDATE wallets SET balance = $1 WHERE id = $2.
Update(g) ==
    /\ wpc[g] = "update"
    /\ LET t == reqs[wreq[g]].t
           isDeposit == t.OperationType = Deposit
       IN  \/ /\ Insufficient(isDeposit, tx[g].balance, t.Amount)
              /\ Abort(g, ErrInsufficientFunds)
              /\ UNCHANGED <<wallets, faults, applied, wreq>>
           \/ /\ ~Insufficient(isDeposit, tx[g].balance, t.Amount)
              /\ ~CtxDone(g)
              /\ ColumnAccepts(NewBalance(isDeposit, tx[g].balance, t.Amount))
              /\ tx' = [tx EXCEPT ![g].newBalance =
                            NewBalance(isDeposit, tx[g].balance, t.Amount)]
              /\ wpc' = [wpc EXCEPT ![g] = "commit"]
              /\ UNCHANGED <<wallets, rowLock, faults, applied, wreq, werr,
                             execResult>>
           \/ /\ ~Insufficient(isDeposit, tx[g].balance, t.Amount)
              /\ ~CtxDone(g)
              /\ ~ColumnAccepts(NewBalance(isDeposit, tx[g].balance, t.Amount))
              /\ Abort(g, StoreFailure)
              /\ UNCHANGED <<wallets, faults, applied, wreq>>
           \/ /\ ~Insufficient(isDeposit, tx[g].balance, t.Amount)
              /\ CtxError(g)
           \/ /\ ~Insufficient(isDeposit, tx[g].balance, t.Amount)
              /\ Fault(g)
    /\ UNCHANGED <<lifeVars, queues, callerVars, resultChan, otherHist>>

\* A write made outside the transaction: it is in the table before the
\* commit is attempted, and stays there when the commit fails.
CommitAfterWrite(g) ==
    /\ wpc[g] = "commit"
    /\ LET r == wreq[g]
           w == reqs[r].t.WalletID
       IN  /\ wallets' = [wallets EXCEPT ![w] = tx[g].newBalance]
           /\ \/ /\ applied' = [applied EXCEPT ![r] = @ + 1]
                 /\ Abort(g, Completed)
                 /\ UNCHANGED <<faults, wreq>>
              \/ /\ faults < MaxFaults
                 /\ faults' = faults + 1
                 /\ Abort(g, StoreFailure)
                 /\ UNCHANGED <<applied, wreq>>
    /\ UNCHANGED <<lifeVars, queues, callerVars, resultChan, otherHist>>

\* Lines 97-102: tx.Commit() publishes the new balance and drops the lock.
Commit(g) ==
    /\ wpc[g] = "commit"
    /\ LET r == wreq[g]
           w == reqs[r].t.WalletID
       IN  \/ /\ ~CtxDone(g)
              /\ wallets' = [wallets EXCEPT ![w] = tx[g].newBalance]
              /\ applied' = [applied EXCEPT ![r] = @ + 1]
              /\ Abort(g, Completed)
              /\ UNCHANGED <<faults, wreq>>
           \/ CtxError(g)
           \/ Fault(g)
    /\ UNCHANGED <<lifeVars, queues, callerVars, resultChan, otherHist>>

\* A worker that reports success whatever the repository returned.
ReplyNil(g) == Completed

\* The value the worker sends: its variable err (nil after a commit).
Reply(g) == werr[g]

\* A worker that returns after its first request.
LoopReturn(g) == "done"

\* Lines 83-94: after the send the range loop goes on with its next
\* iteration.
Loop(g) == "range"

\* A result channel made without a buffer.
ResultCapNone(r) == 0

\* Line 66: resultChan := make(chan error, 1); cap(req.result) of request r.
ResultCap(r) == 1

\* Line 93: req.result <- err; blocks while the buffer is full.
Deliver(g) ==
    /\ wpc[g] = "deliver"
    /\ Len(resultChan[wreq[g]]) < ResultCap(wreq[g])
    /\ resultChan' = [resultChan EXCEPT ![wreq[g]] = Append(@, Reply(g))]
    /\ delivered' = [delivered EXCEPT ![wreq[g]] = @ + 1]
    /\ wpc' = [wpc EXCEPT ![g] = Loop(g)]
    /\ wreq' = [wreq EXCEPT ![g] = 0]
    /\ werr' = [werr EXCEPT ![g] = None]
    /\ UNCHANGED <<lifeVars, storeVars, queues, callerVars, arrival, started,
                   execResult, touched, born>>

\* ------------------------------------------------------------------ Shutdown
\* walletService.Shutdown is called on service s.
Shutdown(k, s) ==
    /\ sd[k].pc = "new"
    /\ \A j \in ShutdownIds : j < k => sd[j].pc # "new"
    /\ s \in services
    /\ sd' = [sd EXCEPT ![k] =
                 [svc |-> s, i |-> 0, pc |-> "close",
                  backlog |-> Cardinality(
                      {r \in ReqIds :
                          \/ \E l \in Lanes : l[1] = s /\ \E n \in 1 .. Len(queues[l]) : queues[l][n] = r
                          \/ \E g \in Goroutines : g[1] = s /\ wreq[g] = r}),
                  caught |-> {}]]
    /\ UNCHANGED <<envVars, ctxVars, httpVars, closed, storeVars, queues, callerVars,
                   resultChan, workerVars, histVars>>

\* The calls whose goroutine is on the send into lane l (line 68).
OnSend(l) == {r \in ReqIds : cpc[r] = "send" /\ reqLane(r) = l}

\* Lines 102-104: close(s.queues[i]); closing a closed channel panics.
ShutdownClose(k) ==
    /\ sd[k].pc = "close"
    /\ LET l == <<sd[k].svc, sd[k].i>>
       IN  IF closed[l]
           THEN /\ sd' = [sd EXCEPT ![k].pc = "panic"]
                /\ closed' = closed
           ELSE /\ closed' = [closed EXCEPT ![l] = TRUE]
                /\ sd' = [sd EXCEPT ![k].i = @ + 1,
                                    ![k].pc = IF sd[k].i + 1 < workers
                                              THEN "close" ELSE "wait",
                                    ![k].caught = @ \cup OnSend(l)]
    /\ UNCHANGED <<envVars, ctxVars, httpVars, storeVars, queues, callerVars, resultChan,
                   workerVars, histVars>>

\* A WaitGroup that was added to once more than workers were started.
wgCounterExtra(s) ==
    1 + Cardinality({g \in Goroutines : g[1] = s /\ wpc[g] # "done"})

\* s.wg: NewWalletService adds 1 for every worker it starts, and a worker's
\* deferred s.wg.Done() takes 1 off when processTransactions returns.
wgCounter(s) == Cardinality({g \in Goroutines : g[1] = s /\ wpc[g] # "done"})

\* Line 105: s.wg.Wait() returns once the counter is zero.
ShutdownWait(k) ==
    /\ sd[k].pc = "wait"
    /\ wgCounter(sd[k].svc) = 0
    /\ sd' = [sd EXCEPT ![k].pc = "ret"]
    /\ UNCHANGED <<envVars, ctxVars, httpVars, closed, storeVars, queues, callerVars,
                   resultChan, workerVars, histVars>>

\* ------------------------------------------------------------------ Next
Next ==
    \/ \E w \in WalletIDs : CreateWallet(w)
    \/ \E r \in ReqIds, s \in Services, t \in Transaction : Submit(r, s, t)
    \/ \E r \in ReqIds : Send(r)
    \/ \E r \in ReqIds : Recv(r)
    \/ \E g \in Goroutines : Range(g)
    \/ \E g \in Goroutines : BeginTx(g)
    \/ \E g \in Goroutines : Exists(g)
    \/ \E g \in Goroutines : SelectForUpdate(g)
    \/ \E g \in Goroutines : Update(g)
    \/ \E g \in Goroutines : Commit(g)
    \/ \E g \in Goroutines : Deliver(g)

\* Two services on one store, running: no Shutdown call is made.
Spec == Init /\ [][Next]_vars

\* One service from construction to the end of Shutdown; its callers credit
\* one unit to either wallet.
LifecycleMenu ==
    {t \in Transaction : t.OperationType = Deposit /\ t.Amount = 1}

InitLifecycle ==
    /\ NewWalletService({1})
    /\ menu = LifecycleMenu
    /\ capacity = QueueCap
    /\ InitStore /\ InitCallers /\ InitHistory

NextLifecycle ==
    \/ Next
    \/ \E g \in Goroutines : RangeEnd(g)
    \/ \E k \in ShutdownIds, s \in Services : Shutdown(k, s)
    \/ \E k \in ShutdownIds : ShutdownClose(k)
    \/ \E k \in ShutdownIds : ShutdownWait(k)

SpecLifecycle == InitLifecycle /\ [][NextLifecycle]_vars

\* One service whose lanes hold one request less, so that two calls fill a
\* lane.  The Go scheduler runs every runnable goroutine, and every store
\* round trip ends (with a result or an error).
InitBackpressure ==
    /\ NewWalletService({1})
    /\ menu = LifecycleMenu
    /\ capacity = QueueCap - 1
    /\ InitStore /\ InitCallers /\ InitHistory

Fairness ==
    /\ \A r \in ReqIds : WF_vars(Send(r)) /\ WF_vars(Recv(r))
    /\ \A g \in Goroutines :
           /\ WF_vars(Range(g)) /\ WF_vars(BeginTx(g)) /\ WF_vars(Exists(g))
           /\ WF_vars(SelectForUpdate(g)) /\ WF_vars(Update(g))
           /\ WF_vars(Commit(g)) /\ WF_vars(Deliver(g))

SpecBackpressure == InitBackpressure /\ [][Next]_vars /\ Fairness

\* A service on which Shutdown is called once, under the same scheduling:
\* a call that was made goes on, a worker whose lane is closed and drained
\* leaves its loop.
NextShutdownOnce ==
    \/ Next
    \/ \E g \in Goroutines : RangeEnd(g)
    \/ \E s \in Services : Shutdown(1, s)
    \/ ShutdownClose(1)
    \/ ShutdownWait(1)

FairShutdown ==
    /\ Fairness
    /\ \A g \in Goroutines : WF_vars(RangeEnd(g))
    /\ WF_vars(ShutdownClose(1))
    /\ WF_vars(ShutdownWait(1))

SpecShutdownOnce == InitBackpressure /\ [][NextShutdownOnce]_vars /\ FairShutdown

\* The same service with lanes that hold one request less, so that the
\* second call on a lane is suspended on its send when Shutdown is called.
SpecShutdownRace == InitBackpressure /\ [][NextLifecycle]_vars

\* One service started on a table that earlier runs have left rows in: the
\* wallet WalletA holds 2^62, the result of one completed Credit.
FundedWallets == (WalletA :> (MaxInt64 \div 2 + 1))

FundedMenu ==
    {t \in Transaction : t.OperationType \in {Deposit, Withdraw} /\ t.Amount > 0}

InitFunded ==
    /\ NewWalletService({1})
    /\ menu = FundedMenu
    /\ capacity = QueueCap
    /\ wallets = FundedWallets
    /\ rowLock = [w \in WalletIDs |-> NoLock]
    /\ tx = [g \in Goroutines |-> NoTx]
    /\ faults = 0
    /\ InitCallers /\ InitHistory

SpecFunded == InitFunded /\ [][Next]_vars

\* ------------------------------------------------------------------ handler
\* "/api/v1/wallets/" and "/transactions".
PathPrefix == <<47, 97, 112, 105, 47, 118, 49, 47, 119, 97, 108, 108, 101, 116, 115, 47>>
PathSuffix == <<47, 116, 114, 97, 110, 115, 97, 99, 116, 105, 111, 110, 115>>

\* strings.TrimPrefix and strings.TrimSuffix.
TrimPrefix(x, prefix) ==
    IF Len(x) >= Len(prefix) /\ SubSeq(x, 1, Len(prefix)) = prefix
    THEN SubSeq(x, Len(prefix) + 1, Len(x)) ELSE x
TrimSuffix(x, suffix) ==
    IF Len(x) >= Len(suffix) /\ SubSeq(x, Len(x) - Len(suffix) + 1, Len(x)) = suffix
    THEN SubSeq(x, 1, Len(x) - Len(suffix)) ELSE x

\* uuid.Parse (github.com/google/uuid) returns no error for the forms
\* xxxxxxxx-xxxx-xxxx-xxxx-xxxxxxxxxxxx, the same behind "urn:uuid:" or
\* inside one extra byte on each side, and 32 hexadecimal digits.
IsHex(c) == c \in (48 .. 57) \cup (65 .. 70) \cup (97 .. 102)
ToLower(c) == IF c \in 65 .. 90 THEN c + 32 ELSE c
UrnPrefix == <<117, 114, 110, 58, 117, 117, 105, 100, 58>>
Hyphenated(x) ==
    /\ Len(x) = 36
    /\ \A i \in 1 .. 36 : IF i \in {9, 14, 19, 24} THEN x[i] = 45 ELSE IsHex(x[i])
ParsesAsUUID(x) ==
    CASE Len(x) = 36 -> Hyphenated(x)
      [] Len(x) = 45 -> /\ [i \in 1 .. 9 |-> ToLower(x[i])] = UrnPrefix
                        /\ Hyphenated(SubSeq(x, 10, 45))
      [] Len(x) = 38 -> Hyphenated(SubSeq(x, 2, 37))
      [] Len(x) = 32 -> \A i \in 1 .. 32 : IsHex(x[i])
      [] OTHER -> FALSE

\* json.NewDecoder(r.Body).Decode(&t): an error for a body that is not JSON,
\* for a member of the wrong JSON type and for a number that does not fit
\* int64; a member that is not there leaves the field at its zero value.
DecodeFails(body) ==
    \/ body.syntax # "ok"
    \/ body.operationType.type = "number"
    \/ body.amount.type = "string"
    \/ body.amount.type = "number" /\ body.amount.num \notin Int64
Decode(body) ==
    [WalletID |-> body.walletId,
     OperationType |-> IF body.operationType.type = "string"
                       THEN body.operationType.str ELSE "",
     Amount |-> IF body.amount.type = "number" THEN body.amount.num ELSE 0]

\* The paths and bodies the HTTP clients of one behaviour send.
PathIDs == WalletIDs \cup {<<97>>, [WalletA EXCEPT ![9] = 48],
                           [WalletB EXCEPT ![36] = 103]}
Paths == {PathPrefix \o id \o PathSuffix : id \in PathIDs}
Bodies ==
    {[syntax |-> "ok", walletId |-> <<>>, operationType |-> JString(op),
      amount |-> JNumber(a)] : op \in OperationTypes, a \in Amounts}
    \cup {[NoBody EXCEPT !.syntax = "malformed"],
          [NoBody EXCEPT !.syntax = "ok", !.amount = JNumber(1)],
          [NoBody EXCEPT !.syntax = "ok", !.operationType = JString(Deposit)],
          [NoBody EXCEPT !.syntax = "ok", !.operationType = JString(Deposit),
                         !.amount = JString("1")],
          [NoBody EXCEPT !.syntax = "ok", !.operationType = JString(Deposit),
                         !.amount = JNumber(MaxInt64 + 1)],
          [NoBody EXCEPT !.syntax = "ok", !.walletId = <<97>>,
                         !.operationType = JString(Deposit),
                         !.amount = JNumber(1)]}

\* A handler that lets every operation type through.
ValidKindAny(op) == TRUE

\* Line 52: t.OperationType != model.Deposit && t.OperationType != model.Withdraw.
ValidKind(op) == op = Deposit \/ op = Withdraw

\* Lines 39-60: the four checks of HandleTransaction, each answered with
\* sendErrorResponse(w, ..., http.StatusBadRequest).
BadRequest(walletID, body) ==
    IF ~ParsesAsUUID(walletID) THEN TRUE
    ELSE IF DecodeFails(body) THEN TRUE
    ELSE IF ~ValidKind(Decode(body).OperationType) THEN TRUE
    ELSE Decode(body).Amount <= 0

\* WalletHandler.HandleTransaction, lines 34-66: from the request to the
\* error response or to the call of h.service.ProcessTransaction, whose
\* first statements (the amount check of the service) run in the same step.
HandleTransaction(h, path, body) ==
    /\ http[h].pc = "new"
    /\ \A j \in HttpIds : j < h => http[j].pc # "new"
    /\ LET walletID == TrimSuffix(TrimPrefix(path, PathPrefix), PathSuffix)
           t == [Decode(body) EXCEPT !.WalletID = walletID]
       IN  IF BadRequest(walletID, body)
           THEN /\ http' = [http EXCEPT ![h] =
                              [pc |-> "done", path |-> path, body |-> body,
                               call |-> 0, status |-> 400]]
                /\ UNCHANGED <<envVars, ctxVars, closed, sd, storeVars, queues,
                               callerVars, resultChan, workerVars, histVars>>
           ELSE /\ nextReq + 1 \in ReqIds
                /\ \E s \in services : Enter(nextReq + 1, s, t)
                /\ http' = [http EXCEPT ![h] =
                              [pc |-> "called", path |-> path, body |-> body,
                               call |-> nextReq + 1, status |-> 0]]

\* Lines 66-85: the status for what ProcessTransaction returned.
StatusOf(err) ==
    CASE err = Completed -> 200
      [] err = ErrWalletNotFound -> 404
      [] err = ErrInsufficientFunds -> 409
      [] err = ErrInvalidAmount -> 400
      [] OTHER -> 500

\* Lines 66-85: ProcessTransaction has returned; the response is written.
Respond(h) ==
    /\ http[h].pc = "called"
    /\ cpc[http[h].call] = "ret"
    /\ http' = [http EXCEPT ![h].pc = "done",
                            ![h].status = StatusOf(ret[http[h].call])]
    /\ UNCHANGED <<envVars, ctxVars, closed, sd, storeVars, queues,
                   callerVars, resultChan, workerVars, histVars>>

\* One service behind the HTTP handler: every call of ProcessTransaction is
\* made by HandleTransaction.
InitHandler ==
    /\ NewWalletService({1})
    /\ menu = Transaction
    /\ capacity = QueueCap
    /\ InitStore /\ InitCallers /\ InitHistory

NextHandler ==
    \/ \E w \in WalletIDs : CreateWallet(w)
    \/ \E h \in HttpIds, path \in Paths, body \in Bodies :
           HandleTransaction(h, path, body)
    \/ \E h \in HttpIds : Respond(h)
    \/ \E r \in ReqIds : Send(r)
    \/ \E r \in ReqIds : Recv(r)
    \/ \E g \in Goroutines : Range(g)
    \/ \E g \in Goroutines : BeginTx(g)
    \/ \E g \in Goroutines : Exists(g)
    \/ \E g \in Goroutines : SelectForUpdate(g)
    \/ \E g \in Goroutines : Update(g)
    \/ \E g \in Goroutines : Commit(g)
    \/ \E g \in Goroutines : Deliver(g)

SpecHandler == InitHandler /\ [][NextHandler]_vars

\* ------------------------------------------------------------------ router
\* The identifiers getShard is called with: every string of up to MaxIdLen
\* of these bytes, the empty one included, and the wallets of the model.
RouterBytes == {0, 49, 255}
RECURSIVE Strings(_)
Strings(n) ==
    IF n = 0 THEN {<<>>}
    ELSE Strings(n - 1) \cup
         {Append(x, c) : x \in {y \in Strings(n - 1) : Len(y) = n - 1},
                         c \in RouterBytes}
RouterIDs == Strings(MaxIdLen) \cup WalletIDs
LaneCounts == 1 .. mainWorkers

\* Line 65: shard := s.getShard(t.WalletID), for a service of n lanes built
\* for a platform whose int has the given width.
CallGetShard(id, n, bits) ==
    /\ route.pc = "new"
    /\ route' = [pc |-> "shard", id |-> id, workers |-> n, bits |-> bits,
                 shard |-> getShardOf(id, n, bits)]
    /\ UNCHANGED <<services, menu, capacity, ctxVars, httpVars, closed, sd,
                   storeVars, queues, callerVars, resultChan, workerVars,
                   histVars>>

\* Line 68: s.queues[shard]; an index outside 0 .. len(s.queues)-1 panics.
QueueLookup ==
    /\ route.pc = "shard"
    /\ route' = [route EXCEPT !.pc = IF route.shard \in 0 .. route.workers - 1
                                     THEN "found" ELSE "panic"]
    /\ UNCHANGED <<services, menu, capacity, ctxVars, httpVars, closed, sd,
                   storeVars, queues, callerVars, resultChan, workerVars,
                   histVars>>

NextRouter ==
    \/ \E id \in RouterIDs, n \in LaneCounts, bits \in IntSizes :
           CallGetShard(id, n, bits)
    \/ QueueLookup

\* getShard and the queue lookup on their own, for every identifier, lane
\* count and int width.
SpecRouter == InitLifecycle /\ [][NextRouter]_vars

\* The caller of ProcessTransaction cancels the ctx it passed (line 60)
\* while the call is in progress.
Cancel(r) ==
    /\ cpc[r] \in {"send", "recv"}
    /\ ~cancelled[r]
    /\ cancelled' = [cancelled EXCEPT ![r] = TRUE]
    /\ UNCHANGED <<envVars, httpVars, closed, sd, storeVars, queues, callerVars,
                   resultChan, workerVars, histVars>>

NextCancel ==
    \/ Next
    \/ \E r \in ReqIds : Cancel(r)

\* One service whose callers may cancel their contexts.
SpecCancel == InitBackpressure /\ [][NextCancel]_vars

\* ------------------------------------------------------------------ properties
Made(r) == r <= nextReq
InSeq(x, q) == \E i \in 1 .. Len(q) : q[i] = x
\* r was admitted: it entered the queue of some lane.
Admitted(r) == \E l \in Lanes : InSeq(r, arrival[l])
\* r is buffered in a lane or in the hands of a worker.
InFlight(r) ==
    \/ \E l \in Lanes : InSeq(r, queues[l])
    \/ \E g \in Goroutines : wreq[g] = r
Returned(r) == cpc[r] = "ret"

\* The signed effect of a request on its wallet, as a mathematical integer.
Effect(r) ==
    IF reqs[r].t.OperationType = Deposit THEN reqs[r].t.Amount
    ELSE 0 - reqs[r].t.Amount

RECURSIVE SumEffects(_)
SumEffects(S) ==
    IF S = {} THEN 0
    ELSE LET r == CHOOSE x \in S : TRUE IN Effect(r) + SumEffects(S \ {r})

\* The calls on wallet w whose executor call reported Completed.
CompletedOn(w) ==
    {r \in ReqIds : Made(r) /\ reqs[r].t.WalletID = w
                    /\ execResult[r] = Completed}

\* C1: in every reachable state the committed balance of every wallet is
\* >= 0, whatever Credits and Debits were submitted and however they
\* interleave.
C1_NonNegative == \A w \in DOMAIN wallets : wallets[w] >= 0

\* C2: when the N calls made so far are all Credits of the same amount A on
\* one wallet that existed (balance 0) before the first of them, no store
\* round trip failed and all N have returned, then all returned Completed and
\* the committed balance is N * A.
C2_NoLostCredits ==
    \A w \in WalletIDs, a \in Amounts :
        ( /\ a > 0
          /\ nextReq >= 1
          /\ born[w]
          /\ faults = 0
          /\ \A r \in 1 .. nextReq :
                /\ reqs[r].t = [WalletID |-> w, OperationType |-> Deposit,
                                Amount |-> a]
                /\ Returned(r) )
        => /\ \A r \in 1 .. nextReq : ret[r] = Completed
           /\ wallets[w] = nextReq * a

\* The goroutines between their locked read and their commit on wallet w.
LockedSection(w) ==
    {g \in Goroutines : /\ wpc[g] \in {"update", "commit"}
                        /\ reqs[wreq[g]].t.WalletID = w}

\* No two executor calls are inside the read-check-write-commit window of
\* one wallet at the same time, whichever service they belong to.
NoInterleaving == \A w \in WalletIDs : Cardinality(LockedSection(w)) <= 1

\* C3: with several services on one store, the locked windows of two calls on
\* one wallet never overlap, and every balance is its initial value 0 plus
\* the Completed Credits minus the Completed Debits.
C3_NoLostUpdate ==
    /\ NoInterleaving
    /\ \A w \in DOMAIN wallets : wallets[w] = SumEffects(CompletedOn(w))

Rejections == {ErrInvalidAmount, ErrInvalidOperation, ErrWalletNotFound,
               ErrInsufficientFunds}

\* C4: a call that returned InvalidAmount, InvalidOperation, WalletNotFound or
\* InsufficientFunds committed no change to any wallet row.
C4_RejectionNoEffect ==
    \A r \in ReqIds : (Returned(r) /\ ret[r] \in Rejections) => applied[r] = 0

\* C4 witness: a Debit was rejected for insufficient funds on a wallet that
\* another call had credited.
C4_Witness ==
    \E r, q \in ReqIds :
        /\ Returned(r) /\ ret[r] = ErrInsufficientFunds
        /\ Returned(q) /\ ret[q] = Completed
        /\ reqs[r].t.WalletID = reqs[q].t.WalletID

\* C5: a call with amount <= 0 has returned InvalidAmount in the step that
\* made it: it never entered a lane queue and the store was never called for
\* it, whatever its kind and wallet.
C5_InvalidAmountSync ==
    \A r \in ReqIds :
        (Made(r) /\ reqs[r].t.Amount <= 0)
        => /\ Returned(r) /\ ret[r] = ErrInvalidAmount
           /\ ~Admitted(r)
           /\ ~InFlight(r)
           /\ ~touched[r]

\* C5 witness: calls with amount 0 and with a negative amount were rejected
\* while another call was in a lane.
C5_Witness ==
    \E r, q \in ReqIds :
        /\ Made(r) /\ reqs[r].t.Amount <= 0 /\ ret[r] = ErrInvalidAmount
        /\ reqs[r].t.OperationType # Deposit
        /\ Admitted(q)

UnknownKind(r) == reqs[r].t.OperationType \notin {Deposit, Withdraw}

\* C6: a call with a positive amount and a kind that is neither Credit nor
\* Debit never enters a lane queue and its caller never waits on a worker.
C6_InvalidOperationPreLane ==
    \A r \in ReqIds :
        (Made(r) /\ reqs[r].t.Amount > 0 /\ UnknownKind(r))
        => ~Admitted(r) /\ cpc[r] # "recv"

\* C7 as stated: for a call with an unrecognized kind the repository is never
\* invoked and, once the call has returned, it returned InvalidOperation.
C7_AlwaysInvalidOperation ==
    \A r \in ReqIds :
        (Made(r) /\ UnknownKind(r))
        => /\ ~touched[r]
           /\ Returned(r) => ret[r] = ErrInvalidOperation

\* C7 amended: for a call with an unrecognized kind the repository is never
\* invoked; once the call has returned, it returned InvalidOperation if its
\* amount is positive and InvalidAmount if it is not.
C7_UnknownKindNoStore ==
    \A r \in ReqIds :
        (Made(r) /\ UnknownKind(r))
        => /\ ~touched[r]
           /\ execResult[r] = None
           /\ applied[r] = 0
           /\ Returned(r) => ret[r] = IF reqs[r].t.Amount > 0
                                      THEN ErrInvalidOperation
                                      ELSE ErrInvalidAmount

\* C7 witness: a call with an unrecognized kind and a positive amount went
\* through a worker and returned InvalidOperation.
C7_Witness ==
    \E r \in ReqIds :
        /\ Made(r) /\ UnknownKind(r) /\ reqs[r].t.Amount > 0
        /\ Admitted(r) /\ Returned(r) /\ ret[r] = ErrInvalidOperation

\* What the worker's switch computes for r: the repository's return value,
\* or InvalidOperation when the repository is not called.
ExecutorResult(r) == IF touched[r] THEN execResult[r] ELSE ErrInvalidOperation

\* C8: an admitted request has had exactly one Outcome sent on its result
\* channel or is still in its lane (never two, never lost), a request that
\* was not admitted has none, and the Outcome a returned call got is the
\* executor's result for that very request: nil exactly when its own
\* transaction committed.
C8_ExactlyOneOutcome ==
    \A r \in ReqIds :
        /\ delivered[r] <= 1
        /\ Len(resultChan[r]) <= 1
        /\ ~Admitted(r) => delivered[r] = 0
        /\ Admitted(r) => ((delivered[r] = 1) # InFlight(r))
        /\ (Admitted(r) /\ Returned(r))
           => /\ delivered[r] = 1
              /\ ret[r] = ExecutorResult(r)
              /\ (ret[r] = Completed) = (applied[r] = 1)

\* C8 witness: two admitted calls have returned, one with nil and one with
\* the repository's error.
C8_Witness ==
    \E r, q \in ReqIds :
        /\ r # q /\ Admitted(r) /\ Admitted(q) /\ Returned(r) /\ Returned(q)
        /\ ret[r] = Completed
        /\ ret[q] \in {StoreFailure, ErrWalletNotFound, ErrInsufficientFunds}

\* The executor call for r is in progress.
Executing(r) == \E g \in Goroutines : wreq[g] = r /\ wpc[g] \in ExecPcs

\* C9: in one lane, when a request has been taken by a worker, every request
\* that entered the lane's queue before it has been taken too and its
\* executor call is over.
C9_LaneFIFO ==
    \A l \in Lanes :
        \A i, j \in 1 .. Len(arrival[l]) :
            (i < j /\ InSeq(arrival[l][j], started[l]))
            => /\ InSeq(arrival[l][i], started[l])
               /\ ~Executing(arrival[l][i])

\* C9 witness: two requests were buffered in one lane at the same time and
\* the second one has been taken.
C9_Witness ==
    \E l \in Lanes :
        /\ Len(arrival[l]) = 2
        /\ Len(started[l]) = 2
        /\ \E g \in Goroutines : /\ wreq[g] = arrival[l][2]
                                 /\ wpc[g] \in ExecPcs
        /\ touched[arrival[l][1]]

\* C10: every lane of a service has exactly one worker goroutine, at most one
\* executor call is in progress per lane, and a lane's worker takes a
\* request only after the Outcome of the previous one was sent.
C10_OneWorkerPerLane ==
    \A l \in Lanes :
        l[1] \in services
        => /\ Cardinality({g \in Goroutines :
                              laneOf(g) = l /\ wpc[g] # "none"}) = 1
           /\ Cardinality({g \in Goroutines :
                              laneOf(g) = l /\ wpc[g] \in ExecPcs}) <= 1
           /\ \A i \in 1 .. Len(started[l]) - 1 :
                  delivered[started[l][i]] = 1

\* C10 witness: a worker is inside an executor call while another request
\* waits in the queue of its lane.
C10_Witness ==
    \E g \in Goroutines :
        /\ wpc[g] \in ExecPcs
        /\ queues[laneOf(g)] # <<>>

\* C11: within one service every request enters the lane getShard gives for
\* its wallet, so two requests for one wallet share a lane, and no two
\* executor calls for one wallet are in progress at the same time.
C11_SameLane ==
    /\ \A l \in Lanes : \A i \in 1 .. Len(arrival[l]) :
           l = <<reqs[arrival[l][i]].svc,
                 shardOf[reqs[arrival[l][i]].t.WalletID]>>
    /\ \A r, q \in ReqIds :
           ( /\ r # q /\ Made(r) /\ Made(q)
             /\ reqs[r].svc = reqs[q].svc
             /\ reqs[r].t.WalletID = reqs[q].t.WalletID )
           => /\ \A l, m \in Lanes :
                     (InSeq(r, arrival[l]) /\ InSeq(q, arrival[m])) => l = m
              /\ ~(Executing(r) /\ Executing(q))

\* C11 witness: two requests of one service for one wallet were routed, one
\* is inside its executor call and the other waits behind it in the lane.
C11_Witness ==
    \E r, q \in ReqIds :
        /\ r # q /\ Made(r) /\ Made(q)
        /\ reqs[r].svc = reqs[q].svc
        /\ reqs[r].t.WalletID = reqs[q].t.WalletID
        /\ Executing(r)
        /\ InSeq(q, queues[reqLane(r)])

\* The caller of r is suspended on the send into a full lane.
Suspended(r) == cpc[r] = "send" /\ Len(queues[reqLane(r)]) >= capacity

\* C12: no lane ever holds more requests than its capacity; a caller whose
\* lane is full stays on its send, with no error returned and its request
\* not dropped, for as long as the lane is full; and every caller on its
\* send eventually has its request in the lane.
C12_Backpressure ==
    /\ [](\A l \in Lanes : Len(queues[l]) <= capacity)
    /\ [][\A r \in ReqIds :
             Suspended(r) => /\ cpc'[r] = "send"
                             /\ ret'[r] = None
                             /\ reqs'[r] = reqs[r]]_vars
    /\ \A r \in ReqIds : (cpc[r] = "send") ~> Admitted(r)

\* C12 witness: a caller is suspended on its send because an earlier
\* request fills the lane; it has no result and its request is not lost.
C12_Witness ==
    \E r, q \in ReqIds :
        /\ Suspended(r)
        /\ ret[r] = None
        /\ reqs[r].t \in menu
        /\ queues[reqLane(r)] = <<q>>

\* C13: once a Shutdown call has returned, every request that ever entered a
\* lane of that service (so every request that was in a lane when Shutdown
\* was called) has been taken by the worker, executed, and has had its
\* Outcome sent; no lane of the service holds a request.
C13_ShutdownDrains ==
    \A k \in ShutdownIds :
        sd[k].pc = "ret"
        => /\ \A r \in ReqIds :
                  (Admitted(r) /\ reqs[r].svc = sd[k].svc)
                  => /\ delivered[r] = 1
                     /\ ~InFlight(r)
                     /\ touched[r] /\ execResult[r] # None
           /\ \A l \in Lanes : l[1] = sd[k].svc => queues[l] = <<>>

\* C13 witness: Shutdown was called with a request waiting in a lane and a
\* request in its executor call, and has returned.
C13_Witness ==
    \E k \in ShutdownIds :
        /\ sd[k].pc = "ret"
        /\ sd[k].backlog = 2

\* C14: a call with a positive amount whose lane was closed by Shutdown
\* before its send gets an error returned to it: its caller's goroutine never
\* ends in a panic, and the request is not executed.
C14_ClosedLaneFailsFast ==
    \A r \in ReqIds :
        (Made(r) /\ reqs[r].t.Amount > 0 /\ ~Admitted(r)
                 /\ closed[reqLane(r)])
        => /\ cpc[r] \in {"send", "ret"}
           /\ ~touched[r]

\* C15: a Shutdown call made when lanes of the service are already closed
\* raises no fault: no Shutdown call ever ends in a panic.
C15_ShutdownIdempotent ==
    \A k \in ShutdownIds : sd[k].pc # "panic"

\* C16: a caller whose ctx is cancelled while it is suspended on the send or
\* on the receive of the Outcome can go on by itself: a step of its own is
\* enabled, whatever the lane's worker does.
C16_CancelReleases ==
    \A r \in ReqIds :
        (cancelled[r] /\ cpc[r] \in {"send", "recv"})
        => ENABLED (Send(r) \/ Recv(r))

\* The worker holding the row lock for request r, if any.
Holder(r) == {g \in Goroutines : wreq[g] = r /\ wpc[g] \in {"update", "commit"}}

\* C17: when op1 entered a lane before op2 and both are for the same wallet,
\* then by the time op2 has read the balance under its lock, and so by the
\* time its effect is committed, op1's executor call is over and its Outcome
\* was sent; the balance op2 read is the committed one, op1's effect included.
C17_SerialPerWallet ==
    \A l \in Lanes : \A i, j \in 1 .. Len(arrival[l]) :
        LET op1 == arrival[l][i]
            op2 == arrival[l][j]
            w == reqs[op2].t.WalletID
        IN  (i < j /\ reqs[op1].t.WalletID = w
                   /\ (applied[op2] > 0 \/ Holder(op2) # {}))
            => /\ delivered[op1] = 1
               /\ ~InFlight(op1)
               /\ \A g \in Holder(op2) : tx[g].balance = wallets[w]

\* C17 witness: a Credit and then a Debit of the same amount entered one lane
\* for one wallet that held nothing; the Credit completed and the Debit,
\* having read the credited balance, is about to commit.
C17_Witness ==
    \E l \in Lanes :
        /\ Len(arrival[l]) = 2
        /\ LET op1 == arrival[l][1]
               op2 == arrival[l][2]
           IN  /\ reqs[op1].t.WalletID = reqs[op2].t.WalletID
               /\ reqs[op1].t.OperationType = Deposit
               /\ reqs[op2].t.OperationType = Withdraw
               /\ reqs[op1].t.Amount = reqs[op2].t.Amount
               /\ execResult[op1] = Completed
               /\ \E g \in Holder(op2) : wpc[g] = "commit" /\ tx[g].balance > 0

\* The executor call for r has ended with an error.
Failed(r) == execResult[r] \notin {None, Completed}

\* C18: a step changes the committed balance of a wallet only if it is the
\* commit of an executor call for that wallet which reports Completed; a
\* step in which an executor call ends with an error changes no balance, and
\* a call that has not reported Completed has changed none.
C18_AllOrNothing ==
    [][ /\ \A w \in DOMAIN wallets :
              wallets'[w] # wallets[w]
              => \E r \in ReqIds :
                     /\ reqs[r].t.WalletID = w
                     /\ execResult[r] = None /\ execResult'[r] = Completed
                     /\ applied'[r] = 1
        /\ \A r \in ReqIds :
              /\ (~Failed(r) /\ Failed(r)')
                 => \A w \in DOMAIN wallets : wallets'[w] = wallets[w]
              /\ execResult'[r] # Completed => applied'[r] = 0 ]_vars

\* C18 witness: a Credit failed on a store round trip, on a wallet another
\* Credit has completed on; the balance is the completed Credit alone.
C18_Witness ==
    \E r, q \in ReqIds :
        /\ r # q
        /\ reqs[r].t.WalletID = reqs[q].t.WalletID
        /\ execResult[r] = StoreFailure /\ applied[r] = 0
        /\ reqs[r].t.OperationType = Deposit
        /\ execResult[q] = Completed /\ reqs[q].t.OperationType = Deposit
        /\ wallets[reqs[q].t.WalletID] = reqs[q].t.Amount

\* The balance wallet w had before the first call of the behaviour.
Opening(w) == IF w \in DOMAIN FundedWallets THEN FundedWallets[w] ELSE 0

\* C19: when the only two calls on a wallet are a Credit of A that completed
\* and then a Debit of A, no store round trip failed and both have returned,
\* then the Debit completed too and the balance is what it was before the
\* Credit.
C19_Conservation ==
    \A w \in WalletIDs, a \in Amounts :
        ( /\ a > 0
          /\ nextReq = 2
          /\ reqs[1].t = [WalletID |-> w, OperationType |-> Deposit, Amount |-> a]
          /\ reqs[2].t = [WalletID |-> w, OperationType |-> Withdraw, Amount |-> a]
          /\ arrival[reqLane(1)] = <<1, 2>>
          /\ Returned(1) /\ Returned(2)
          /\ ret[1] = Completed
          /\ faults = 0 )
        => /\ ret[2] = Completed
           /\ wallets[w] = Opening(w)

\* The wallet ID in the path of HTTP request h.
PathID(h) == SubSeq(http[h].path, Len(PathPrefix) + 1,
                    Len(http[h].path) - Len(PathSuffix))

\* HTTP request h passes the four checks: its wallet ID parses as a UUID,
\* its body decodes, its operation type is DEPOSIT or WITHDRAW and its
\* amount is positive.
WellFormed(h) ==
    /\ ParsesAsUUID(PathID(h))
    /\ ~DecodeFails(http[h].body)
    /\ Decode(http[h].body).OperationType \in {Deposit, Withdraw}
    /\ Decode(http[h].body).Amount > 0

\* C20: behind the handler, a request that fails a check is answered 400
\* and no call of ProcessTransaction is made for it; every call that is made
\* belongs to a request that passes the four checks and carries the path's
\* wallet ID and the body's kind and amount; so every request in a lane has
\* a kind of DEPOSIT or WITHDRAW and a positive amount.
C20_HandlerValidates ==
    /\ \A h \in HttpIds :
           http[h].pc # "new"
           => IF WellFormed(h)
              THEN /\ http[h].call \in 1 .. nextReq
                   /\ reqs[http[h].call].t =
                        [WalletID |-> PathID(h),
                         OperationType |-> http[h].body.operationType.str,
                         Amount |-> http[h].body.amount.num]
              ELSE /\ http[h].pc = "done" /\ http[h].status = 400
                   /\ http[h].call = 0
    /\ \A r \in 1 .. nextReq :
           /\ \E h \in HttpIds : http[h].call = r /\ WellFormed(h)
           /\ reqs[r].t.OperationType \in {Deposit, Withdraw}
           /\ reqs[r].t.Amount > 0
    /\ \A l \in Lanes : \A i \in 1 .. Len(arrival[l]) :
           /\ ~UnknownKind(arrival[l][i])
           /\ reqs[arrival[l][i]].t.Amount > 0

\* C20 witness: a request with an unknown operation type was answered 400
\* without a call of the service, and a request that passes the checks,
\* whose body names another wallet than its path, is in a lane.
C20_Witness ==
    \E h, k \in HttpIds :
        /\ http[h].pc = "done" /\ http[h].status = 400 /\ http[h].call = 0
        /\ ParsesAsUUID(PathID(h)) /\ ~DecodeFails(http[h].body)
        /\ Decode(http[h].body).OperationType = "INVALID_OPERATION"
        /\ Decode(http[h].body).Amount > 0
        /\ http[k].pc = "called" /\ Admitted(http[k].call)
        /\ http[k].body.walletId # <<>>
\* C21: a call that was on its send, not yet enqueued, when Shutdown closed
\* its lane (suspended on a full lane or racing with the close) does not
\* fault: its goroutine never ends in a panic.
C21_CaughtSubmitEnds ==
    \A k \in ShutdownIds : \A r \in sd[k].caught : cpc[r] # "panic"
\* C22: for every wallet ID and every lane count, getShard returns an index
\* i with 0 <= i < lane count, and the queue lookup with it does not fault.
C22_RouterInRange ==
    route.pc # "new"
    => /\ route.shard \in 0 .. route.workers - 1
       /\ route.pc # "panic"

\* On a platform whose int is 64 bits wide the index is in range.
RouterInRange64 ==
    (route.pc # "new" /\ route.bits = 64)
    => /\ route.shard \in 0 .. route.workers - 1
       /\ route.pc # "panic"
\* C23: a worker that has an Outcome to deliver is never blocked on the
\* write: the request's result channel is empty and the send of line 93 is
\* enabled, whatever the caller of the request does or has given up.
C23_DeliverNeverBlocks ==
    \A g \in Goroutines :
        wpc[g] = "deliver"
        => /\ resultChan[wreq[g]] = <<>>
           /\ ENABLED Deliver(g)

\* C23 witness: a worker delivers the Outcome of a request whose caller
\* has cancelled its ctx, while the next request waits in the lane.
C23_Witness ==
    \E g \in Goroutines :
        /\ wpc[g] = "deliver"
        /\ cancelled[wreq[g]]
        /\ queues[laneOf(g)] # <<>>
        /\ ENABLED Deliver(g)
\* The worker goroutine of the lane request r was routed to.
WorkerOf(r) == CHOOSE g \in Goroutines : laneOf(g) = reqLane(r)

\* C24: a row lock is held only by a worker between its locked read and its
\* commit, never by a call that has ended; once an executor call has ended
\* in WalletNotFound, InsufficientFunds or a store failure, that failure is
\* the request's Outcome: the worker is about to send it on the empty
\* result channel, or it was sent once and the worker has left the request
\* and is back on its lane (idle or working on a later request).
C24_FailureReleases ==
    /\ \A w \in WalletIDs :
           rowLock[w] # NoLock
           => /\ wpc[rowLock[w]] \in {"update", "commit"}
              /\ reqs[wreq[rowLock[w]]].t.WalletID = w
              /\ execResult[wreq[rowLock[w]]] = None
    /\ \A r \in ReqIds :
           Failed(r)
           => LET g == WorkerOf(r)
              IN  \/ /\ wreq[g] = r /\ wpc[g] = "deliver"
                     /\ werr[g] = execResult[r]
                     /\ resultChan[r] = <<>> /\ delivered[r] = 0
                  \/ /\ wreq[g] # r /\ wpc[g] \in {"range"} \cup ExecPcs \cup {"deliver"}
                     /\ delivered[r] = 1
                     /\ ~InFlight(r)
                     /\ IF Returned(r) THEN ret[r] = execResult[r]
                        ELSE resultChan[r] = <<execResult[r]>>

\* C24 witness: a Debit ended in InsufficientFunds after its locked read,
\* the caller got that error, and the worker of the lane has taken the next
\* request, for the same wallet, and holds the row lock for it.
C24_Witness ==
    \E l \in Lanes :
        /\ Len(started[l]) = 2
        /\ LET r == started[l][1]
               q == started[l][2]
           IN  /\ execResult[r] = ErrInsufficientFunds
               /\ Returned(r) /\ ret[r] = ErrInsufficientFunds
               /\ reqs[q].t.WalletID = reqs[r].t.WalletID
               /\ \E g \in Holder(q) : rowLock[reqs[q].t.WalletID] = g
\* C25: the step that follows the locked read of an existing wallet ends the
\* call in InsufficientFunds exactly when the request is a Debit and the
\* balance read is strictly less than its amount; a Debit of the whole
\* balance goes on with a new balance of 0, and when it reports Completed the
\* committed balance is 0; a Credit never gets InsufficientFunds.
C25_InsufficientExactly ==
    /\ [][\A g \in Goroutines :
             (wpc[g] = "update" /\ wpc'[g] # "update")
             => LET r == wreq[g]
                    t == reqs[r].t
                IN  /\ (execResult'[r] = ErrInsufficientFunds)
                       <=> (t.OperationType = Withdraw
                            /\ tx[g].balance < t.Amount)
                    /\ ( /\ t.OperationType = Withdraw
                         /\ tx[g].balance = t.Amount
                         /\ wpc'[g] = "commit" )
                       => tx'[g].newBalance = 0]_vars
    /\ [][\A g \in Goroutines :
             (wpc[g] = "commit" /\ wpc'[g] # "commit")
             => LET r == wreq[g]
                    t == reqs[r].t
                IN  /\ execResult'[r] # ErrInsufficientFunds
                    /\ ( /\ t.OperationType = Withdraw
                         /\ tx[g].balance = t.Amount
                         /\ execResult'[r] = Completed )
                       => wallets'[t.WalletID] = 0]_vars
    /\ [](\A r \in ReqIds :
             (execResult[r] = ErrInsufficientFunds
                \/ ret[r] = ErrInsufficientFunds)
             => reqs[r].t.OperationType = Withdraw)

\* C25 witness: a Debit of the whole balance completed and left 0, and the
\* Debit behind it on the same wallet returned InsufficientFunds.
C25_Witness ==
    \E r, q \in ReqIds :
        /\ r # q
        /\ reqs[r].t.WalletID = reqs[q].t.WalletID
        /\ reqs[r].t.OperationType = Withdraw
        /\ reqs[r].t.Amount = Opening(reqs[r].t.WalletID)
        /\ execResult[r] = Completed /\ applied[r] = 1
        /\ wallets[reqs[r].t.WalletID] = 0
        /\ reqs[q].t.OperationType = Withdraw
        /\ Returned(q) /\ ret[q] = ErrInsufficientFunds
\* C26: under fair scheduling of callers and workers, with every store
\* round trip ending, every request that entered a lane is eventually taken
\* by the worker, gets one Outcome, and its call returns.
C26_AdmittedReturns ==
    \A r \in ReqIds :
        Admitted(r) ~> ( /\ Returned(r)
                         /\ delivered[r] = 1
                         /\ InSeq(r, started[reqLane(r)])
                         /\ ~InFlight(r) )

\* C26 witness: two requests went through one lane whose queue holds one of
\* them at a time, and both calls have returned the executor's result.
C26_Witness ==
    \E l \in Lanes :
        /\ Len(arrival[l]) = 2
        /\ Len(started[l]) = 2
        /\ \A i \in 1 .. 2 : Returned(arrival[l][i])
                               /\ ret[arrival[l][i]] = execResult[arrival[l][i]]
\* C27: a Shutdown call that was made closes every lane and returns; when
\* it has returned every worker of the service has left its loop and
\* signalled the WaitGroup and no lane holds a request; and when no request
\* ever entered a lane, no store call was made.
C27_ShutdownTerminates ==
    /\ \A k \in ShutdownIds :
           (sd[k].pc \in {"close", "wait"}) ~> (sd[k].pc = "ret")
    /\ [](\A k \in ShutdownIds :
             sd[k].pc = "ret"
             => /\ \A l \in Lanes : l[1] = sd[k].svc => closed[l] /\ queues[l] = <<>>
                /\ \A g \in Goroutines : g[1] = sd[k].svc => wpc[g] = "done"
                /\ (\A r \in ReqIds : ~Admitted(r))
                   => /\ \A r \in ReqIds : ~touched[r] /\ applied[r] = 0
                      /\ faults = 0)

\* C27 witness: Shutdown was called while the lanes and workers held
\* requests, and it has returned with every worker out of its loop and every
\* one of these requests answered.
C27_Witness ==
    /\ sd[1].pc = "ret"
    /\ sd[1].backlog >= 1
    /\ \A g \in Goroutines : g[1] = sd[1].svc => wpc[g] = "done"
    /\ \E r \in ReqIds : Admitted(r) /\ delivered[r] = 1

\* Shutdown has returned on a service that never had a request in a lane,
\* and no store call was made.
ShutdownIdle ==
    /\ sd[1].pc = "ret"
    /\ \A r \in ReqIds : ~Admitted(r) /\ ~touched[r]
    /\ faults = 0

\* C28: a Credit of A on a wallet whose balance B >= 0 was read under the
\* lock writes B + A as a mathematical integer, inside the int64 range and
\* above B; and when a Completed Credit is the only call that changed its
\* wallet, the committed balance is the opening balance plus A, not lower
\* than before and not negative.
C28_CreditExact ==
    /\ \A g \in Goroutines :
           ( /\ wpc[g] = "commit"
             /\ reqs[wreq[g]].t.OperationType = Deposit
             /\ tx[g].balance >= 0 )
           => /\ tx[g].newBalance = tx[g].balance + reqs[wreq[g]].t.Amount
              /\ tx[g].newBalance > tx[g].balance
    /\ \A r \in ReqIds :
           LET w == reqs[r].t.WalletID
           IN  ( /\ Made(r)
                 /\ reqs[r].t.OperationType = Deposit
                 /\ execResult[r] = Completed
                 /\ \A q \in ReqIds \ {r} :
                        Made(q) /\ reqs[q].t.WalletID = w => applied[q] = 0 )
               => /\ wallets[w] = Opening(w) + reqs[r].t.Amount
                  /\ wallets[w] \in Int64
                  /\ wallets[w] > Opening(w)
====